---- MODULE Spec2Model ----
(***************************************************************************)
(* Model of the vault cleaner's scanner (FileScanner): the two recursive   *)
(* passes over the vault tree, the file classifier with its reference      *)
(* resolver and pattern matcher, the report that scanFiles returns, and    *)
(* deleteItems; and of the cleanup view (CleanFilesModal) that scans,      *)
(* lets the user tick items and deletes them after a confirmation.         *)
(*                                                                         *)
(* Strings are sequences of one-character strings, so that startsWith,     *)
(* trim, join, basename and regular-expression matching are computed the   *)
(* way the code computes them.  An optional value (null / undefined) is    *)
(* the empty sequence, a present value v is <<v>>.                         *)
(***************************************************************************)
EXTENDS Integers, Sequences, FiniteSets, TLC

VARIABLES
    fs,           \* the filesystem below the vault root: a set of entries
    unlistable,   \* full paths of directories on which fs.readdir fails
    app,          \* the host's vault index and metadata cache
    settings,     \* FileScanner.settings
    pluginSettings, \* CleanFilesPlugin.settings
    aliased,      \* the two settings fields hold the same object
    legacy,       \* the extension lists of the plugin's settings object
    scanResult,   \* the report of the last scanFiles call (None before one)
    scanConfig,   \* history: the effective ScanConfig of the last scanFiles call
    scans,        \* history: number of scanFiles calls completed
    warnings,     \* history: the pattern warnings logged by the last scanFiles call
    raced,        \* history: the file that vanished during the last scanFiles call
    suspended,    \* a scanFiles call waiting in its files pass: None or Some
    deleteArg,    \* history: the items the last deleteItems call was given
    deleteResult, \* what the last deleteItems call returned (None before one)
    attempts,     \* history: the removals the last deleteItems call attempted
    deletes,      \* history: number of deleteItems calls completed
    isScanning,   \* CleanFilesModal.isScanning: a handleScan awaits scanFiles
    orphans,      \* scanFiles calls in flight whose cleanup view has been closed
    dialog,       \* the open confirmation dialog: None, or Some(items to delete)
    notice,       \* the Notices shown by the last handler of the cleanup view
    edits,        \* history: number of settings-tab events handled
    patternInput, \* the pattern field validated last: None, or Some of its
                  \* settingKey, its text and (history) the event's number
    status        \* statusDiv.textContent of that pattern field

setup == <<settings, pluginSettings, aliased, legacy>>
world == <<fs, unlistable, app, setup>>
scanning == <<scanResult, scanConfig, scans, warnings, raced, suspended>>
deletion == <<deleteArg, deleteResult, attempts, deletes>>
form == <<patternInput, status>>
view == <<isScanning, orphans, dialog, notice, edits, form>>

vars == <<world, scanning, deletion, view>>

----------------------------------------------------------------------------
(* Bounds of the model *)

MaxScanDepthSetting == 4   \* maxScanDepth ranges over 0..MaxScanDepthSetting
MaxScans == 2              \* scanFiles calls per behaviour
MaxDeletes == 1            \* deleteItems calls per behaviour
MaxEdits == 2              \* settings-tab events per behaviour

----------------------------------------------------------------------------
(* Optional values *)

None == <<>>
Some(v) == <<v>>
IsSome(o) == Len(o) > 0

\* a ?? b
Coalesce(o, default) == IF IsSome(o) THEN o[1] ELSE default

----------------------------------------------------------------------------
(* Strings *)

Sep == "/"

\* String.prototype.startsWith for a one-character prefix
StartsWith(s, ch) == Len(s) > 0 /\ s[1] = ch

IsSpace(ch) == ch = " "

RECURSIVE TrimStart(_)
TrimStart(s) ==
    IF Len(s) > 0 /\ IsSpace(s[1]) THEN TrimStart(Tail(s)) ELSE s

RECURSIVE TrimEnd(_)
TrimEnd(s) ==
    IF Len(s) > 0 /\ IsSpace(s[Len(s)])
    THEN TrimEnd(SubSeq(s, 1, Len(s) - 1))
    ELSE s

\* String.prototype.trim
Trim(s) == TrimEnd(TrimStart(s))

\* index of the first occurrence of needle in s, 0 when there is none
IndexOf(s, needle) ==
    LET hits == { i \in 1..(Len(s) - Len(needle) + 1) :
                    SubSeq(s, i, i + Len(needle) - 1) = needle }
    IN IF hits = {} THEN 0 ELSE CHOOSE i \in hits : \A j \in hits : i <= j

\* String.prototype.replace(needle, '') with a string needle: first occurrence
RemoveFirst(s, needle) ==
    LET i == IndexOf(s, needle)
    IN IF i = 0 THEN s
       ELSE SubSeq(s, 1, i - 1) \o SubSeq(s, i + Len(needle), Len(s))

\* index of the last "." in a name, 0 when there is none
LastDot(name) ==
    LET dots == { i \in 1..Len(name) : name[i] = "." }
    IN IF dots = {} THEN 0 ELSE CHOOSE i \in dots : \A j \in dots : j <= i

\* path.join(dir, name)
Join(dir, name) == dir \o <<Sep>> \o name

----------------------------------------------------------------------------
(* Regular expressions.  The dialect covers what the patterns of this      *)
(* model use: literal characters, "\c" (the character c), "." (any         *)
(* character), ".*", "^" and "$", and a group "(a|b|c)" of alternatives    *)
(* that is not nested and carries no quantifier.  new RegExp throws on an  *)
(* unbalanced parenthesis, on a trailing backslash and on a leading "*".   *)

Backslash == "\\"

Tok(t, c) == [t |-> t, c |-> c]

RECURSIVE Tokenize(_, _)
Tokenize(src, i) ==
    IF i > Len(src) THEN <<>>
    ELSE IF src[i] = Backslash /\ i + 1 <= Len(src)
         THEN <<Tok("lit", src[i + 1])>> \o Tokenize(src, i + 2)
    ELSE IF src[i] = "." /\ i + 1 <= Len(src) /\ src[i + 1] = "*"
         THEN <<Tok("anystar", "")>> \o Tokenize(src, i + 2)
    ELSE IF src[i] = "." THEN <<Tok("any", "")>> \o Tokenize(src, i + 1)
    ELSE IF src[i] = "^" THEN <<Tok("bol", "")>> \o Tokenize(src, i + 1)
    ELSE IF src[i] = "$" THEN <<Tok("eol", "")>> \o Tokenize(src, i + 1)
    ELSE <<Tok("lit", src[i])>> \o Tokenize(src, i + 1)

\* number of unescaped occurrences of ch in src, from index i
RECURSIVE CountUnescaped(_, _, _)
CountUnescaped(src, ch, i) ==
    IF i > Len(src) THEN 0
    ELSE IF src[i] = Backslash THEN CountUnescaped(src, ch, i + 2)
    ELSE (IF src[i] = ch THEN 1 ELSE 0) + CountUnescaped(src, ch, i + 1)

\* does the text end in an unescaped backslash
RECURSIVE EndsInEscape(_, _)
EndsInEscape(src, i) ==
    IF i > Len(src) THEN FALSE
    ELSE IF src[i] = Backslash
         THEN (i = Len(src)) \/ EndsInEscape(src, i + 2)
    ELSE EndsInEscape(src, i + 1)

\* new RegExp(src) does not throw
RegExpValid(src) ==
    /\ CountUnescaped(src, "(", 1) = CountUnescaped(src, ")", 1)
    /\ ~EndsInEscape(src, 1)
    /\ ~StartsWith(src, "*")

\* the tokens from index k on match s from position i on
RECURSIVE MatchHere(_, _, _, _)
MatchHere(toks, k, s, i) ==
    IF k > Len(toks) THEN TRUE
    ELSE LET tok == toks[k] IN
         CASE tok.t = "bol" -> i = 1 /\ MatchHere(toks, k + 1, s, i)
           [] tok.t = "eol" -> i = Len(s) + 1 /\ MatchHere(toks, k + 1, s, i)
           [] tok.t = "lit" -> i <= Len(s) /\ s[i] = tok.c
                               /\ MatchHere(toks, k + 1, s, i + 1)
           [] tok.t = "any" -> i <= Len(s) /\ MatchHere(toks, k + 1, s, i + 1)
           [] tok.t = "anystar" ->
                 \E j \in i..(Len(s) + 1) : MatchHere(toks, k + 1, s, j)

\* index of the first unescaped ch in src at or after i, 0 when there is none
RECURSIVE FirstUnescaped(_, _, _)
FirstUnescaped(src, ch, i) ==
    IF i > Len(src) THEN 0
    ELSE IF src[i] = Backslash THEN FirstUnescaped(src, ch, i + 2)
    ELSE IF src[i] = ch THEN i
    ELSE FirstUnescaped(src, ch, i + 1)

\* the alternatives of the body of a group
RECURSIVE Alternatives(_)
Alternatives(body) ==
    LET bar == FirstUnescaped(body, "|", 1)
    IN IF bar = 0 THEN {body}
       ELSE {SubSeq(body, 1, bar - 1)}
            \cup Alternatives(SubSeq(body, bar + 1, Len(body)))

\* the group-free expressions that src stands for: each group is replaced
\* by one of its alternatives
RECURSIVE Expand(_)
Expand(src) ==
    LET open == FirstUnescaped(src, "(", 1)
        close == IF open = 0 THEN 0 ELSE FirstUnescaped(src, ")", open + 1)
    IN IF open = 0 \/ close = 0 THEN {src}
       ELSE UNION { Expand(SubSeq(src, 1, open - 1) \o alt
                           \o SubSeq(src, close + 1, Len(src))) :
                    alt \in Alternatives(SubSeq(src, open + 1, close - 1)) }

\* new RegExp(src).test(s): a match anywhere in s
RegExpTest(src, s) ==
    \E alt \in Expand(src) :
        LET toks == Tokenize(alt, 1)
        IN \E i \in 1..(Len(s) + 1) : MatchHere(toks, 1, s, i)

----------------------------------------------------------------------------
(* The filesystem.  An entry is a directory or a file directly inside the  *)
(* directory whose full path is dir.  Universe lists every entry the model *)
(* can hold, in the order fs.readdir enumerates them.                      *)

VaultPath == <<"/", "v">>

DirEntry(dir, name) ==
    [dir |-> dir, name |-> name, type |-> "directory", size |-> 0]
FileEntry(dir, name, size) ==
    [dir |-> dir, name |-> name, type |-> "file", size |-> size]

FullPath(e) == Join(e.dir, e.name)

DirA == DirEntry(VaultPath, <<"a">>)
FileShallow == FileEntry(FullPath(DirA), <<"s", ".", "t">>, 3)
DirB == DirEntry(FullPath(DirA), <<"b">>)
DirC == DirEntry(FullPath(DirB), <<"c">>)
FileDeep == FileEntry(FullPath(DirC), <<"d", ".", "t">>, 3)
DirE == DirEntry(VaultPath, <<"e">>)
FileKeep == FileEntry(FullPath(DirE), <<".", "k">>, 1)
DirGit == DirEntry(VaultPath, <<".", "g">>)
FileJunk == FileEntry(FullPath(DirGit), <<"j", ".", "t">>, 2)
FileNote == FileEntry(VaultPath, <<"n", ".", "m", "d">>, 1)
FileRoot == FileEntry(VaultPath, <<"u", " ", ".", "t">>, 2)

Universe ==
    <<DirA, FileShallow, DirB, DirC, FileDeep, DirE, FileKeep,
      DirGit, FileJunk, FileNote, FileRoot>>

UniverseSet == { Universe[i] : i \in 1..Len(Universe) }

\* every entry of a tree lies in a directory of the tree or in the root
ParentClosed(tree) ==
    \A e \in tree :
        e.dir = VaultPath
        \/ \E d \in tree : d.type = "directory" /\ FullPath(d) = e.dir

Trees == { t \in SUBSET UniverseSet : ParentClosed(t) }

\* fs.readdir(dirPath, { withFileTypes: true }) throws
ReadDirFails(dirPath) ==
    \/ dirPath \in unlistable
    \/ /\ dirPath # VaultPath
       /\ ~\E d \in fs : d.type = "directory" /\ FullPath(d) = dirPath

\* fs.readdir(dirPath, { withFileTypes: true }), when it does not throw
ReadDir(dirPath) ==
    SelectSeq(Universe, LAMBDA e : e \in fs /\ e.dir = dirPath)

\* fs.stat(fullPath): None when it throws, else the size
Stat(fullPath) ==
    LET hit == { e \in fs : FullPath(e) = fullPath }
    IN IF hit = {} THEN None ELSE Some((CHOOSE e \in hit : TRUE).size)

\* entries.filter(entry => !entry.name.startsWith('.'))
NotHidden(entries) == SelectSeq(entries, LAMBDA e : ~StartsWith(e.name, "."))

\* FileScanner.getRelativePath
GetRelativePath(fullPath) ==
    LET rest == RemoveFirst(fullPath, VaultPath)
    IN IF Len(rest) > 0 /\ rest[1] \in {"/", Backslash} THEN Tail(rest) ELSE rest

----------------------------------------------------------------------------
(* The host's vault index and metadata cache.                              *)
(*   app.files            vault-relative paths that resolve to a TFile     *)
(*   app.cache[p]         getFileCache: None, or Some of a record whose    *)
(*                        links and embeds are None or Some(array)         *)
(*   app.resolvedLinks,   sets of [source, target, count]: the entry       *)
(*   app.unresolvedLinks  map[source][target] = count                      *)

\* the last segment of a vault-relative path
RECURSIVE FileNameOf(_)
FileNameOf(rel) ==
    IF IndexOf(rel, <<Sep>>) = 0 THEN rel
    ELSE FileNameOf(SubSeq(rel, IndexOf(rel, <<Sep>>) + 1, Len(rel)))

\* TFile.extension
Extension(rel) ==
    LET name == FileNameOf(rel)  d == LastDot(name)
    IN IF d = 0 \/ d = 1 \/ d = Len(name) THEN <<>>
       ELSE SubSeq(name, d + 1, Len(name))

\* TFile.basename
Basename(rel) ==
    LET name == FileNameOf(rel)  d == LastDot(name)
    IN IF d = 0 \/ d = 1 \/ d = Len(name) THEN name
       ELSE SubSeq(name, 1, d - 1)

\* vault.getAbstractFileByPath(relativePath) instanceof TFile
IsTFile(rel) == rel \in app.files

\* vault.getMarkdownFiles()
GetMarkdownFiles == { f \in app.files : Extension(f) = <<"m", "d">> }

\* metadataCache.getFileCache(file)
GetFileCache(rel) == app.cache[rel]

\* a resolver that does not look at the length of an array
NonEmptyArrayNever(arr) == FALSE

\* cache.links?.length > 0
NonEmptyArray(arr) == IsSome(arr) /\ Len(arr[1]) > 0

\* some element of an optional array of link targets equals one of the texts
ArrayMentions(arr, texts) ==
    IsSome(arr) /\ \E i \in 1..Len(arr[1]) : arr[1][i] \in texts

\* some source of a link map has a truthy entry for relativePath
MapMentions(linkMap, rel) ==
    \E l \in linkMap : l.target = rel /\ l.count # 0

\* a check that consults the resolved links only
CheckExternalFileReferencesResolvedOnly(rel) ==
    MapMentions(app.resolvedLinks, rel)

\* FileScanner.checkExternalFileReferences
CheckExternalFileReferences(rel) ==
    \/ MapMentions(app.resolvedLinks, rel)
    \/ MapMentions(app.unresolvedLinks, rel)

\* FileScanner.isReferencedByObsidian
IsReferencedByObsidian(filePath) ==
    LET rel == GetRelativePath(filePath) IN
    IF ~IsTFile(rel) THEN CheckExternalFileReferences(rel)
    ELSE LET cache == GetFileCache(rel) IN
         \/ /\ IsSome(cache)
            /\ NonEmptyArray(cache[1].links) \/ NonEmptyArray(cache[1].embeds)
         \/ \E src \in GetMarkdownFiles :
               LET sourceCache == GetFileCache(src) IN
               /\ IsSome(sourceCache)
               /\ \/ ArrayMentions(sourceCache[1].links, {rel, Basename(rel)})
                  \/ ArrayMentions(sourceCache[1].embeds, {rel, Basename(rel)})
         \/ MapMentions(app.resolvedLinks, rel)

----------------------------------------------------------------------------
(* The classifier *)

\* this.settings.pattern && this.settings.pattern.trim()
HasPattern(pattern) == Len(pattern) > 0 /\ Len(Trim(pattern)) > 0

\* new RegExp(pattern).test(fileName) inside try/catch: a throw is logged
\* and the step falls through
\* a matcher for which a pattern that does not compile matches every name
TestPatternInvalidMatches(pattern, fileName) ==
    ~RegExpValid(pattern) \/ RegExpTest(pattern, fileName)

TestPattern(pattern, fileName) ==
    RegExpValid(pattern) /\ RegExpTest(pattern, fileName)

\* a variant of BelowMinFileSize: stats.size <= config.minFileSize
AtOrBelowMinFileSize(size, config) == size <= config.minFileSize

\* stats.size < config.minFileSize
BelowMinFileSize(size, config) == size < config.minFileSize

\* step 3 of isUnlinkedFile
MatchesProtected(fileName) ==
    HasPattern(settings.protectedPattern)
    /\ TestPattern(settings.protectedPattern, fileName)

\* a variant of MatchesCleanable: an unset pattern matches every name
MatchesCleanableOrUnset(fileName) ==
    ~HasPattern(settings.cleanablePattern)
    \/ TestPattern(settings.cleanablePattern, fileName)

\* step 4 of isUnlinkedFile
MatchesCleanable(fileName) ==
    HasPattern(settings.cleanablePattern)
    /\ TestPattern(settings.cleanablePattern, fileName)

\* a variant of IsUnlinkedFile: the reference check is left out
IsUnlinkedFileIgnoringReferences(filePath, fileName, config) ==
    LET stats == Stat(filePath) IN
    IF ~IsSome(stats) THEN FALSE
    ELSE IF BelowMinFileSize(stats[1], config) THEN FALSE
    ELSE IF MatchesProtected(fileName) THEN FALSE
    ELSE IF MatchesCleanable(fileName) THEN TRUE
    ELSE FALSE

\* a variant of IsUnlinkedFile: the cleanable pattern is tried before the
\* protected pattern
IsUnlinkedFileCleanableFirst(filePath, fileName, config) ==
    LET stats == Stat(filePath) IN
    IF ~IsSome(stats) THEN FALSE
    ELSE IF BelowMinFileSize(stats[1], config) THEN FALSE
    ELSE IF IsReferencedByObsidian(filePath) THEN FALSE
    ELSE IF MatchesCleanable(fileName) THEN TRUE
    ELSE IF MatchesProtected(fileName) THEN FALSE
    ELSE FALSE

\* FileScanner.isUnlinkedFile
IsUnlinkedFile(filePath, fileName, config) ==
    LET stats == Stat(filePath) IN
    IF ~IsSome(stats) THEN FALSE
    ELSE IF BelowMinFileSize(stats[1], config) THEN FALSE
    ELSE IF IsReferencedByObsidian(filePath) THEN FALSE
    ELSE IF MatchesProtected(fileName) THEN FALSE
    ELSE IF MatchesCleanable(fileName) THEN TRUE
    ELSE FALSE

----------------------------------------------------------------------------
(* The walker *)

\* config.excludeHidden ? entries.filter(...) : entries
FilterHidden(entries, config) ==
    IF config.excludeHidden THEN NotHidden(entries) ELSE entries

\* a variant of EmptinessEntries: the hidden entries are kept
EmptinessEntriesUnfiltered(dirPath, config) == ReadDir(dirPath)

\* a variant of EmptinessEntries: the hidden entries are always left out
EmptinessEntriesNeverHidden(dirPath, config) == NotHidden(ReadDir(dirPath))

\* filteredEntries of isEmptyDirectory
EmptinessEntries(dirPath, config) == FilterHidden(ReadDir(dirPath), config)

\* filteredEntries of scanEmptyDirectories
DirsPassEntries(dirPath, config) == FilterHidden(ReadDir(dirPath), config)

\* a variant of FilesPassEntries: the hidden entries are kept
FilesPassEntriesUnfiltered(dirPath, config) == ReadDir(dirPath)

\* filteredEntries of scanUnlinkedFiles
FilesPassEntries(dirPath, config) == FilterHidden(ReadDir(dirPath), config)

\* FileScanner.isEmptyDirectory
\* an emptiness test that takes a directory it cannot list for empty
IsEmptyDirectoryUnlessListed(dirPath, config) ==
    IF ReadDirFails(dirPath) THEN TRUE
    ELSE Len(EmptinessEntries(dirPath, config)) = 0

IsEmptyDirectory(dirPath, config) ==
    IF ReadDirFails(dirPath) THEN FALSE
    ELSE Len(EmptinessEntries(dirPath, config)) = 0

\* the depth guard of scanEmptyDirectories
DirsPassStops(depth, config) == depth >= config.maxDepth

\* a variant of FilesPassStops: the limit is read from the settings, not
\* from the configuration of the call
FilesPassStopsAtSetting(depth, config) == depth >= settings.maxScanDepth

\* the depth guard of scanUnlinkedFiles
FilesPassStops(depth, config) == depth >= config.maxDepth

ScanItem(e) ==
    [path |-> GetRelativePath(FullPath(e)), name |-> e.name, type |-> e.type,
     size |-> IF e.type = "directory" THEN 0 ELSE Stat(FullPath(e))[1],
     selected |-> FALSE]

RECURSIVE ScanEmptyDirectories(_, _, _)
RECURSIVE EmptyDirectoriesLoop(_, _, _, _)

\* the for loop of scanEmptyDirectories, from the k-th directory on
EmptyDirectoriesLoop(directories, k, config, depth) ==
    IF k > Len(directories) THEN <<>>
    ELSE LET dir == directories[k]
             fullPath == FullPath(dir)
         IN (IF IsEmptyDirectory(fullPath, config)
             THEN <<ScanItem(dir)>>
             ELSE ScanEmptyDirectories(fullPath, config, depth + 1))
            \o EmptyDirectoriesLoop(directories, k + 1, config, depth)

\* FileScanner.scanEmptyDirectories: the items it pushes, in order
ScanEmptyDirectories(dirPath, config, depth) ==
    IF DirsPassStops(depth, config) THEN <<>>
    ELSE IF ReadDirFails(dirPath) THEN <<>>
    ELSE EmptyDirectoriesLoop(
            SelectSeq(DirsPassEntries(dirPath, config),
                      LAMBDA e : e.type = "directory"),
            1, config, depth)

RECURSIVE ScanUnlinkedFiles(_, _, _)
RECURSIVE UnlinkedFilesLoop(_, _, _, _)

\* the for loop of scanUnlinkedFiles, from the k-th entry on
UnlinkedFilesLoop(entries, k, config, depth) ==
    IF k > Len(entries) THEN <<>>
    ELSE LET entry == entries[k]
             fullPath == FullPath(entry)
         IN (IF entry.type = "directory"
             THEN ScanUnlinkedFiles(fullPath, config, depth + 1)
             ELSE IF IsUnlinkedFile(fullPath, entry.name, config)
             THEN <<ScanItem(entry)>>
             ELSE <<>>)
            \o UnlinkedFilesLoop(entries, k + 1, config, depth)

\* FileScanner.scanUnlinkedFiles: the items it pushes, in order
ScanUnlinkedFiles(dirPath, config, depth) ==
    IF FilesPassStops(depth, config) THEN <<>>
    ELSE IF ReadDirFails(dirPath) THEN <<>>
    ELSE UnlinkedFilesLoop(FilesPassEntries(dirPath, config), 1, config, depth)

----------------------------------------------------------------------------
(* The warnings about invalid patterns that the files pass logs *)

\* one console.warn call: which step warned, about which pattern; fileName
\* (history) is the file that was being classified
Warning(which, pattern, fileName) ==
    [which |-> which, pattern |-> pattern, fileName |-> fileName]

\* the catch block of one pattern step: console.warn when new RegExp throws
PatternWarning(which, pattern, fileName) ==
    IF HasPattern(pattern) /\ ~RegExpValid(pattern)
    THEN <<Warning(which, pattern, fileName)>>
    ELSE <<>>

\* the console.warn calls of one isUnlinkedFile call, in order
ClassifyWarnings(filePath, fileName, config) ==
    LET stats == Stat(filePath) IN
    IF ~IsSome(stats) THEN <<>>
    ELSE IF BelowMinFileSize(stats[1], config) THEN <<>>
    ELSE IF IsReferencedByObsidian(filePath) THEN <<>>
    ELSE PatternWarning("protected", settings.protectedPattern, fileName)
         \o (IF MatchesProtected(fileName) THEN <<>>
             ELSE PatternWarning("cleanable", settings.cleanablePattern,
                                 fileName))

RECURSIVE WalkWarnings(_, _, _)
RECURSIVE WalkWarningsLoop(_, _, _, _)

\* the pattern warnings of the for loop of scanUnlinkedFiles
WalkWarningsLoop(entries, k, config, depth) ==
    IF k > Len(entries) THEN <<>>
    ELSE LET entry == entries[k]
             fullPath == FullPath(entry)
         IN (IF entry.type = "directory"
             THEN WalkWarnings(fullPath, config, depth + 1)
             ELSE ClassifyWarnings(fullPath, entry.name, config))
            \o WalkWarningsLoop(entries, k + 1, config, depth)

\* the pattern warnings of one scanUnlinkedFiles call
WalkWarnings(dirPath, config, depth) ==
    IF FilesPassStops(depth, config) THEN <<>>
    ELSE IF ReadDirFails(dirPath) THEN <<>>
    ELSE WalkWarningsLoop(FilesPassEntries(dirPath, config), 1, config, depth)

\* the pattern warnings of one scanFiles call
ScanWarnings(config) == WalkWarnings(VaultPath, config, 0)

----------------------------------------------------------------------------
(* scanFiles *)

\* the ScanConfig of a call: the argument's fields, else the settings'
EffectiveConfig(arg) ==
    [maxDepth |->
        Coalesce(IF IsSome(arg) THEN arg[1].maxDepth ELSE None,
                 settings.maxScanDepth),
     excludeHidden |->
        Coalesce(IF IsSome(arg) THEN arg[1].excludeHidden ELSE None,
                 settings.excludeHidden),
     minFileSize |->
        Coalesce(IF IsSome(arg) THEN arg[1].minFileSize ELSE None,
                 settings.minFileSize)]

\* const emptyDirectories: ScanItem[] = []
NewEmptyDirectories == <<>>

\* a variant of NewUnlinkedFiles: the list of the previous scan is kept
KeptUnlinkedFiles ==
    IF IsSome(scanResult) THEN scanResult[1].unlinkedFiles ELSE <<>>

\* const unlinkedFiles: ScanItem[] = []
NewUnlinkedFiles == <<>>

\* reduce((sum, item) => sum + (item.size || 0), 0)
RECURSIVE SumSizes(_)
SumSizes(items) ==
    IF Len(items) = 0 THEN 0 ELSE items[1].size + SumSizes(Tail(items))

\* a variant of TotalCount: the directories are not counted
TotalCountFilesOnly(emptyDirectories, unlinkedFiles) == Len(unlinkedFiles)

\* emptyDirectories.length + unlinkedFiles.length
TotalCount(emptyDirectories, unlinkedFiles) ==
    Len(emptyDirectories) + Len(unlinkedFiles)

\* the total size over [...emptyDirectories, ...unlinkedFiles]
TotalSize(emptyDirectories, unlinkedFiles) ==
    SumSizes(emptyDirectories \o unlinkedFiles)

\* the ScanResult that scanFiles returns
ScanReport(config) ==
    LET emptyDirectories ==
            NewEmptyDirectories \o ScanEmptyDirectories(VaultPath, config, 0)
        unlinkedFiles ==
            NewUnlinkedFiles \o ScanUnlinkedFiles(VaultPath, config, 0)
    IN [emptyDirectories |-> emptyDirectories,
        unlinkedFiles |-> unlinkedFiles,
        totalCount |-> TotalCount(emptyDirectories, unlinkedFiles),
        totalSize |-> TotalSize(emptyDirectories, unlinkedFiles)]

\* the arguments scanFiles is called with
PartialConfig(maxDepth, excludeHidden, minFileSize) ==
    [maxDepth |-> maxDepth, excludeHidden |-> excludeHidden,
     minFileSize |-> minFileSize]

ConfigArgs ==
    { None, Some(PartialConfig(Some(1), None, None)) }

\* FileScanner.scanFiles(config)
ScanFiles(arg) ==
    /\ scans < MaxScans
    /\ scanConfig' = Some(EffectiveConfig(arg))
    /\ scanResult' = Some(ScanReport(EffectiveConfig(arg)))
    /\ scans' = scans + 1
    /\ warnings' = ScanWarnings(EffectiveConfig(arg))
    /\ raced' = None
    /\ UNCHANGED <<world, suspended, deletion, view>>

----------------------------------------------------------------------------
(* Initial states *)

PatternNone == <<>>
PatternBlank == <<" ">>
PatternInvalid == <<"(">>
PatternAll == <<".", "*">>
PatternTmp == <<Backslash, ".", "t", "$">>
PatternMd == <<Backslash, ".", "m", "d", "$">>
PatternU == <<"^", "u">>

CleanablePatterns ==
    {PatternNone, PatternBlank, PatternInvalid, PatternAll, PatternTmp}
ProtectedPatterns ==
    {PatternNone, PatternBlank, PatternInvalid, PatternMd, PatternU}

\* the two extension lists of a settings object of the former format: each
\* is None when the object has no such field
Legacy(cleanable, protected) ==
    [cleanableExtensions |-> cleanable, protectedExtensions |-> protected]

NoLegacy == Legacy(None, None)

Settings(cleanable, protected, depth, hidden, minSize) ==
    [cleanablePattern |-> cleanable, protectedPattern |-> protected,
     maxScanDepth |-> depth, excludeHidden |-> hidden, minFileSize |-> minSize]

RelNote == GetRelativePath(FullPath(FileNote))
RelRoot == GetRelativePath(FullPath(FileRoot))
RelShallow == GetRelativePath(FullPath(FileShallow))
RelKeep == GetRelativePath(FullPath(FileKeep))

Cache(links, embeds) == Some([links |-> links, embeds |-> embeds])

NoteCaches ==
    { None,
      Cache(Some(<<>>), None),
      Cache(Some(<<RelRoot>>), None),
      Cache(None, Some(<<Basename(RelShallow)>>)),
      Cache(Some(<<<<"x">>>>), Some(<<>>)) }

Link(source, target, count) ==
    [source |-> source, target |-> target, count |-> count]

ResolvedMaps ==
    { {}, {Link(RelNote, RelRoot, 1)}, {Link(RelNote, RelRoot, 0)},
      {Link(RelNote, RelKeep, 1)} }

UnresolvedMaps == { {}, {Link(RelNote, RelKeep, 1)} }

IndexedFiles == { {}, {RelNote}, {RelNote, RelRoot, RelShallow} }

App(files, noteCache, resolved, unresolved) ==
    [files |-> files,
     cache |-> [f \in files |-> IF f = RelNote THEN noteCache ELSE None],
     resolvedLinks |-> resolved,
     unresolvedLinks |-> unresolved]

NoLinks == App({}, None, {}, {})

\* vaults of every shape, walked with every depth limit
InitWalk ==
    /\ fs \in { t \in Trees : (FileNote \in t) <=> (FileRoot \in t) }
    /\ unlistable \in { {}, {VaultPath}, {FullPath(DirA)} }
    /\ app = NoLinks
    /\ \E depth \in 0..MaxScanDepthSetting, hidden \in BOOLEAN :
          settings = Settings(PatternAll, PatternMd, depth, hidden, 0)

\* one full vault, classified under every pattern pair and link graph
InitClassify ==
    /\ fs = UniverseSet
    /\ unlistable = {}
    /\ \E files \in IndexedFiles, noteCache \in NoteCaches,
          resolved \in ResolvedMaps, unresolved \in UnresolvedMaps :
          app = App(files, noteCache, resolved, unresolved)
    /\ \E cleanable \in CleanablePatterns, protected \in ProtectedPatterns,
          minSize \in {0, 2} :
          settings = Settings(cleanable, protected, MaxScanDepthSetting,
                              FALSE, minSize)

\* the plugin has handed its settings object to the scanner (onload);
\* nothing has been scanned or deleted, the cleanup view shows nothing
Loaded ==
    /\ scanResult = None
    /\ scanConfig = None
    /\ scans = 0
    /\ pluginSettings = settings
    /\ aliased = TRUE
    /\ warnings = <<>>
    /\ raced = None
    /\ suspended = None
    /\ deleteArg = <<>>
    /\ deleteResult = None
    /\ attempts = <<>>
    /\ deletes = 0
    /\ isScanning = FALSE
    /\ orphans = 0
    /\ dialog = None
    /\ notice = <<>>
    /\ edits = 0
    /\ patternInput = None
    /\ status = <<>>

\* a loaded plugin whose settings object holds no extension lists
Fresh == Loaded /\ legacy = NoLegacy

Init == (InitWalk \/ InitClassify) /\ Fresh

Next == \E arg \in ConfigArgs : ScanFiles(arg)

Spec == Init /\ [][Next]_vars

\* the last report and the configuration it was made under
Report == scanResult[1]
Config == scanConfig[1]

----------------------------------------------------------------------------
(* deleteItems.  A removal returns the disk it leaves and its error: None  *)
(* when it succeeded, Some(code) when it threw.                            *)

EntriesAt(disk, fullPath) == { e \in disk : FullPath(e) = fullPath }

ChildrenAt(disk, fullPath) == { e \in disk : e.dir = fullPath }

\* every entry of disk at or below fullPath
RECURSIVE Subtree(_, _)
Subtree(disk, fullPath) ==
    EntriesAt(disk, fullPath)
    \cup UNION { Subtree(disk, FullPath(c)) : c \in ChildrenAt(disk, fullPath) }

Outcome(disk, error) == [disk |-> disk, error |-> error]

\* a removal that takes the directory together with everything inside it
RmdirRecursive(disk, fullPath) ==
    LET hit == EntriesAt(disk, fullPath) IN
    IF hit = {} THEN Outcome(disk, Some("ENOENT"))
    ELSE IF \E e \in hit : e.type # "directory"
    THEN Outcome(disk, Some("ENOTDIR"))
    ELSE Outcome(disk \ Subtree(disk, fullPath), None)

\* fs.rmdir(fullPath): removes an empty directory, nothing else
Rmdir(disk, fullPath) ==
    LET hit == EntriesAt(disk, fullPath) IN
    IF hit = {} THEN Outcome(disk, Some("ENOENT"))
    ELSE IF \E e \in hit : e.type # "directory"
    THEN Outcome(disk, Some("ENOTDIR"))
    ELSE IF ChildrenAt(disk, fullPath) # {}
    THEN Outcome(disk, Some("ENOTEMPTY"))
    ELSE Outcome(disk \ hit, None)

\* fs.unlink(fullPath): removes a file, nothing else
Unlink(disk, fullPath) ==
    LET hit == EntriesAt(disk, fullPath) IN
    IF hit = {} THEN Outcome(disk, Some("ENOENT"))
    ELSE IF \E e \in hit : e.type = "directory"
    THEN Outcome(disk, Some("EPERM"))
    ELSE Outcome(disk \ hit, None)

\* the template string pushed to errors; its fixed fragments are one token
\* each, the path and the message of the thrown error are spliced in
ErrorText(path, message) ==
    <<"[delete]", " ">> \o path \o <<" ", "[failed]", ":", " ">> \o <<message>>

Attempt(op, fullPath, error) ==
    [op |-> op, fullPath |-> fullPath, error |-> error]

\* a loop that takes every item, whatever its selected flag
SkippedNever(item) == FALSE

\* if (!item.selected) continue;
Skipped(item) == ~item.selected

\* a loop that gives up at the first removal that throws
NextIndexStopping(items, k, error) ==
    IF IsSome(error) THEN Len(items) + 1 ELSE k + 1

\* the catch block swallows the error: the for loop goes on with the next item
NextIndex(items, k, error) == k + 1

\* a result that reports success whatever happened
SuccessAlways(errors) == TRUE

\* success: errors.length === 0
Success(errors) == Len(errors) = 0

\* the for loop of deleteItems from item k on: the disk it leaves, the
\* errors it collects and (history) the removals it attempts
RECURSIVE DeleteLoop(_, _, _, _, _)
DeleteLoop(items, k, disk, errors, log) ==
    IF k > Len(items)
    THEN [disk |-> disk, errors |-> errors, log |-> log]
    ELSE LET item == items[k] IN
         IF Skipped(item)
         THEN DeleteLoop(items, k + 1, disk, errors, log)
         ELSE LET fullPath == Join(VaultPath, item.path)
                  op == IF item.type = "directory" THEN "rmdir" ELSE "unlink"
                  out == IF item.type = "directory"
                         THEN Rmdir(disk, fullPath)
                         ELSE Unlink(disk, fullPath)
              IN DeleteLoop(items, NextIndex(items, k, out.error), out.disk,
                            IF IsSome(out.error)
                            THEN Append(errors,
                                        ErrorText(item.path, out.error[1]))
                            ELSE errors,
                            Append(log, Attempt(op, fullPath, out.error)))

DeleteResult(errors) == [success |-> Success(errors), errors |-> errors]

\* FileScanner.deleteItems(items)
DeleteItems(items) ==
    /\ deletes < MaxDeletes
    /\ LET run == DeleteLoop(items, 1, fs, <<>>, <<>>) IN
          /\ fs' = run.disk
          /\ deleteResult' = Some(DeleteResult(run.errors))
          /\ attempts' = run.log
    /\ deleteArg' = items
    /\ deletes' = deletes + 1
    /\ UNCHANGED <<unlistable, app, setup, scanning, view>>

----------------------------------------------------------------------------
(* A client of the scanner that scans, ticks items of the report, and      *)
(* hands both lists of the report to deleteItems, while other programs     *)
(* create and remove entries of the vault.                                 *)

ReportItems == Report.emptyDirectories \o Report.unlinkedFiles

\* .filter(item => item.selected)
SelectedItems(items) == SelectSeq(items, LAMBDA item : item.selected)

\* item.selected = checkbox.checked, on an item of one of the two lists
ToggleEmptyDirectory(i) ==
    /\ IsSome(scanResult)
    /\ ~isScanning
    /\ ~IsSome(dialog)
    /\ deletes < MaxDeletes
    /\ i \in 1..Len(Report.emptyDirectories)
    /\ scanResult' =
          Some([Report EXCEPT !.emptyDirectories[i].selected = ~@])
    /\ UNCHANGED <<world, scanConfig, scans, warnings, raced, suspended,
                 deletion, view>>

ToggleUnlinkedFile(i) ==
    /\ IsSome(scanResult)
    /\ ~isScanning
    /\ ~IsSome(dialog)
    /\ deletes < MaxDeletes
    /\ i \in 1..Len(Report.unlinkedFiles)
    /\ scanResult' = Some([Report EXCEPT !.unlinkedFiles[i].selected = ~@])
    /\ UNCHANGED <<world, scanConfig, scans, warnings, raced, suspended,
                 deletion, view>>

\* the entries other programs create and remove while the report is shown
ExternalEntries == {FileKeep, FileShallow}

\* another program creates an entry in a directory that exists
ExternalCreate(e) ==
    /\ IsSome(scanResult)
    /\ deletes < MaxDeletes
    /\ e \notin fs
    /\ ParentClosed(fs \cup {e})
    /\ fs' = fs \cup {e}
    /\ UNCHANGED <<unlistable, app, setup, scanning, deletion, view>>

\* another program removes a file
ExternalRemove(e) ==
    /\ IsSome(scanResult)
    /\ deletes < MaxDeletes
    /\ e \in fs
    /\ e.type = "file"
    /\ fs' = fs \ {e}
    /\ UNCHANGED <<unlistable, app, setup, scanning, deletion, view>>

\* vaults with a directory that only looks empty under excludeHidden (e
\* with .k), an empty directory (a/b), and files in the root and below it
DeleteTrees ==
    { {DirA, FileShallow, DirE, FileRoot, FileNote} \cup extra :
        extra \in SUBSET {FileKeep, DirB} }

InitDelete ==
    /\ fs \in DeleteTrees
    /\ unlistable = {}
    /\ app = NoLinks
    /\ \E hidden \in BOOLEAN :
          settings = Settings(PatternAll, PatternMd, MaxScanDepthSetting,
                              hidden, 0)
    /\ Fresh

NextDelete ==
    \/ ScanFiles(None)
    \/ \E i \in 1..Len(Universe) : ToggleEmptyDirectory(i)
    \/ \E i \in 1..Len(Universe) : ToggleUnlinkedFile(i)
    \/ \E e \in ExternalEntries : ExternalCreate(e)
    \/ \E e \in ExternalEntries : ExternalRemove(e)
    \/ IsSome(scanResult) /\ DeleteItems(ReportItems)

SpecDelete == InitDelete /\ [][NextDelete]_vars

----------------------------------------------------------------------------
(* Vocabulary of the properties: the last report, and which entries of the *)
(* tree a walk bounded only by listing failures and hidden filtering would *)
(* arrive at.                                                              *)


Rel(e) == GetRelativePath(FullPath(e))

Paths(items) == { items[i].path : i \in 1..Len(items) }

Items(items) == { items[i] : i \in 1..Len(items) }

\* number of path separators in a vault-relative path
RECURSIVE CountSep(_)
CountSep(s) ==
    IF Len(s) = 0 THEN 0
    ELSE (IF s[1] = Sep THEN 1 ELSE 0) + CountSep(Tail(s))

\* the traversal depth of an entry: the number of directories between the
\* vault root and the entry (a/shallow.tmp: 1, a/b/c/deep.tmp: 3)
Depth(path) == CountSep(path)

\* the directories of the tree that the entry lies in, at any distance
Ancestors(e) ==
    { d \in fs : /\ d.type = "directory"
                 /\ \/ e.dir = FullPath(d)
                    \/ /\ Len(e.dir) > Len(FullPath(d))
                       /\ SubSeq(e.dir, 1, Len(FullPath(d)) + 1)
                             = FullPath(d) \o <<Sep>> }

Children(d) == { c \in fs : c.dir = FullPath(d) }

Shown(e, config) == ~(config.excludeHidden /\ StartsWith(e.name, "."))

\* nothing but the depth limit keeps a walk from listing the entry
Walkable(e, config) ==
    /\ VaultPath \notin unlistable
    /\ Shown(e, config)
    /\ \A d \in Ancestors(e) : Shown(d, config) /\ FullPath(d) \notin unlistable

\* every segment of a vault-relative path starts with something else than "."
NoHiddenSegment(path) ==
    /\ ~StartsWith(path, ".")
    /\ \A i \in 1..(Len(path) - 1) : path[i] = Sep => path[i + 1] # "."

\* the classifier would accept the file, its size left aside
Acceptable(e) ==
    /\ ~IsReferencedByObsidian(FullPath(e))
    /\ ~MatchesProtected(e.name)
    /\ MatchesCleanable(e.name)

----------------------------------------------------------------------------
(* C1: a file that the reference resolver reports as referenced is never   *)
(* in unlinkedFiles, whatever the patterns and the size threshold are.     *)
ReferencedNeverUnlinked ==
    IsSome(scanResult) =>
        \A item \in Items(Report.unlinkedFiles) :
            ~IsReferencedByObsidian(Join(VaultPath, item.path))

\* a referenced file that is large enough, cleanable and not protected has
\* been walked over and left out
ReferencedFileLeftOut ==
    /\ IsSome(scanResult)
    /\ Walkable(FileRoot, Config) /\ Depth(Rel(FileRoot)) < Config.maxDepth
    /\ FileRoot.size >= Config.minFileSize
    /\ IsReferencedByObsidian(FullPath(FileRoot))
    /\ MatchesCleanable(FileRoot.name) /\ ~MatchesProtected(FileRoot.name)
    /\ Rel(FileRoot) \notin Paths(Report.unlinkedFiles)

(* C2 as stated: a file whose name matches a non-empty protectedPattern is *)
(* never in unlinkedFiles.                                                 *)
NonEmptyProtectedNeverUnlinked ==
    IsSome(scanResult) =>
        \A item \in Items(Report.unlinkedFiles) :
            ~(/\ Len(settings.protectedPattern) > 0
              /\ RegExpValid(settings.protectedPattern)
              /\ RegExpTest(settings.protectedPattern, item.name))

(* C2 as amended: a file whose name matches a protectedPattern that is not *)
(* empty after trimming whitespace is never in unlinkedFiles, even when    *)
(* the name matches cleanablePattern too.                                  *)
ProtectedNeverUnlinked ==
    IsSome(scanResult) =>
        \A item \in Items(Report.unlinkedFiles) :
            ~(/\ Len(Trim(settings.protectedPattern)) > 0
              /\ RegExpValid(settings.protectedPattern)
              /\ RegExpTest(settings.protectedPattern, item.name))

\* an unreferenced file matching both patterns has been walked over and
\* left out
ProtectedCleanableFileLeftOut ==
    /\ IsSome(scanResult)
    /\ Walkable(FileRoot, Config) /\ Depth(Rel(FileRoot)) < Config.maxDepth
    /\ FileRoot.size >= Config.minFileSize
    /\ ~IsReferencedByObsidian(FullPath(FileRoot))
    /\ Len(Trim(settings.protectedPattern)) > 0
    /\ RegExpTest(settings.protectedPattern, FileRoot.name)
    /\ Len(Trim(settings.cleanablePattern)) > 0
    /\ RegExpValid(settings.cleanablePattern)
    /\ RegExpTest(settings.cleanablePattern, FileRoot.name)
    /\ Rel(FileRoot) \notin Paths(Report.unlinkedFiles)

CutoffEntriesEvaluated ==
    IsSome(scanResult) =>
        \A e \in fs :
            (Walkable(e, Config) /\ Depth(Rel(e)) <= Config.maxDepth) =>
                /\ (e.type = "file"
                    /\ IsUnlinkedFile(FullPath(e), e.name, Config))
                        => Rel(e) \in Paths(Report.unlinkedFiles)
                /\ (e.type = "directory"
                    /\ IsEmptyDirectory(FullPath(e), Config))
                        => Rel(e) \in Paths(Report.emptyDirectories)

HiddenEntriesSkipped ==
    (IsSome(scanResult) /\ Config.excludeHidden) =>
        \A item \in Items(Report.emptyDirectories \o Report.unlinkedFiles) :
            NoHiddenSegment(item.path)

\* hidden files that the classifier would accept, one in a hidden
\* directory and one in a shown directory, have been left out
HiddenFilesLeftOut ==
    /\ IsSome(scanResult)
    /\ Config.excludeHidden /\ Config.maxDepth >= 2
    /\ VaultPath \notin unlistable
    /\ FileJunk \in fs /\ Acceptable(FileJunk)
    /\ FileKeep \in fs /\ Acceptable(FileKeep)
    /\ Report.totalCount > 0
    /\ {Rel(FileJunk), Rel(FileKeep)} \cap Paths(Report.unlinkedFiles) = {}

TotalsConsistent ==
    IsSome(scanResult) =>
        /\ Report.totalCount
              = Len(Report.emptyDirectories) + Len(Report.unlinkedFiles)
        /\ Report.totalSize
              = SumSizes(Report.emptyDirectories \o Report.unlinkedFiles)
        /\ Report.totalSize = SumSizes(Report.unlinkedFiles)
        /\ \A item \in Items(Report.emptyDirectories) :
              item.type = "directory" /\ item.size = 0

\* a report with entries in both lists and a positive total size
MixedReport ==
    /\ IsSome(scanResult)
    /\ Len(Report.emptyDirectories) > 0
    /\ Len(Report.unlinkedFiles) > 1
    /\ Report.totalSize > 0

----------------------------------------------------------------------------
(* The cleanup view (CleanFilesModal): it scans with the settings' own     *)
(* configuration, lets the user tick items, and deletes the ticked items   *)
(* after a confirmation dialog.                                            *)

\* CleanFilesModal.handleScan up to its await of scanFiles, called by onOpen
\* of a view that is opened while no scan is under way
HandleScan ==
    /\ scans < MaxScans
    /\ ~isScanning
    /\ ~IsSome(dialog)
    /\ isScanning' = TRUE
    /\ notice' = <<"scan_started">>
    /\ UNCHANGED <<world, scanning, deletion, orphans, dialog, edits, form>>

\* the rest of handleScan, once scanFiles has returned its report
HandleScanDone ==
    /\ isScanning
    /\ scanConfig' = Some(EffectiveConfig(None))
    /\ scanResult' = Some(ScanReport(EffectiveConfig(None)))
    /\ scans' = scans + 1
    /\ warnings' = ScanWarnings(EffectiveConfig(None))
    /\ raced' = None
    /\ notice' = Append(notice,
                        IF ScanReport(EffectiveConfig(None)).totalCount = 0
                        THEN "no_items_found" ELSE "items_found")
    /\ isScanning' = FALSE
    /\ UNCHANGED <<world, suspended, deletion, orphans, dialog, edits, form>>

\* a view that opens the dialog whatever is ticked
NothingSelectedNever(selectedItems) == FALSE

\* if (selectedItems.length === 0)
NothingSelected(selectedItems) == Len(selectedItems) = 0

\* CleanFilesModal.handleDelete up to the confirmation dialog; its button
\* is not rendered while isScanning
HandleDelete ==
    /\ ~isScanning
    /\ ~IsSome(dialog)
    /\ deletes < MaxDeletes
    /\ IF ~IsSome(scanResult)
       THEN UNCHANGED <<dialog, notice>>
       ELSE LET selectedItems == SelectedItems(ReportItems) IN
            IF NothingSelected(selectedItems)
            THEN /\ notice' = <<"select_items_first">>
                 /\ UNCHANGED dialog
            ELSE /\ dialog' = Some(selectedItems)
                 /\ notice' = <<>>
    /\ UNCHANGED <<world, scanning, deletion, isScanning, orphans, edits, form>>

\* the dialog's cancel button: confirmed is false, handleDelete returns
CancelDelete ==
    /\ IsSome(dialog)
    /\ dialog' = None
    /\ UNCHANGED <<world, scanning, deletion, isScanning, orphans, notice,
                   edits, form>>

\* the dialog's confirm button: handleDelete goes on to deleteItems and,
\* when every removal succeeded, into handleScan
ConfirmDelete ==
    /\ IsSome(dialog)
    /\ deletes < MaxDeletes
    /\ dialog' = None
    /\ LET run == DeleteLoop(dialog[1], 1, fs, <<>>, <<>>)
           result == DeleteResult(run.errors)
       IN /\ fs' = run.disk
          /\ deleteResult' = Some(result)
          /\ attempts' = run.log
          /\ IF result.success
             THEN /\ isScanning' = TRUE
                  /\ notice' = <<"deleting", "delete_success">>
                                  \o (IF isScanning THEN <<>>
                                      ELSE <<"scan_started">>)
             ELSE /\ notice' = <<"deleting", "delete_partial">>
                  /\ UNCHANGED isScanning
    /\ deleteArg' = dialog[1]
    /\ deletes' = deletes + 1
    /\ UNCHANGED <<unlistable, app, setup, scanning, orphans, edits, form>>

\* vaults of the cleanup view: with and without a file that passes for
\* missing under excludeHidden (e/.k), with and without an empty directory
ModalTrees ==
    { {DirA, FileShallow, FileNote} \cup extra :
        extra \in SUBSET {DirE, FileKeep, DirB, FileRoot} } \cap Trees

InitModal ==
    /\ fs \in ModalTrees
    /\ unlistable = {}
    /\ app = NoLinks
    /\ \E cleanable \in {PatternAll, PatternNone}, hidden \in BOOLEAN :
          settings = Settings(cleanable, PatternMd, MaxScanDepthSetting,
                              hidden, 0)
    /\ Fresh

NextModal ==
    \/ HandleScan
    \/ HandleScanDone
    \/ \E i \in 1..Len(Universe) : ToggleEmptyDirectory(i)
    \/ \E i \in 1..Len(Universe) : ToggleUnlinkedFile(i)
    \/ HandleDelete
    \/ CancelDelete
    \/ ConfirmDelete

SpecModal == InitModal /\ [][NextModal]_vars

----------------------------------------------------------------------------
(* The plugin's commands and ribbon icon: each opens a new cleanup view,   *)
(* whose onOpen starts a scan.  A view that is closed while its scan runs  *)
(* leaves that scanFiles call running; its report goes to the closed view. *)

\* scanFiles calls that have been started and have not returned
InFlight == orphans + (IF isScanning THEN 1 ELSE 0)

\* the open view is closed and CleanFilesPlugin.openCleanFilesModal runs:
\* a new CleanFilesModal (scanResult null, isScanning false) whose onOpen
\* calls handleScan
OpenCleanFilesModal ==
    /\ ~IsSome(dialog)
    /\ scans + InFlight < MaxScans
    /\ orphans' = InFlight
    /\ scanResult' = None
    /\ isScanning' = TRUE
    /\ notice' = <<"scan_started">>
    /\ UNCHANGED <<world, scanConfig, scans, warnings, raced, suspended,
                 deletion, dialog, edits, form>>

\* the scanFiles call of a closed view returns: handleScan stores the
\* report in the closed view and shows its Notice
OrphanScanDone ==
    /\ orphans > 0
    /\ orphans' = orphans - 1
    /\ scans' = scans + 1
    /\ notice' = Append(notice,
                        IF ScanReport(EffectiveConfig(None)).totalCount = 0
                        THEN "no_items_found" ELSE "items_found")
    /\ UNCHANGED <<world, scanResult, scanConfig, warnings, raced, suspended,
                   deletion,
                   isScanning, dialog, edits, form>>

NextPlugin ==
    \/ NextModal
    \/ OpenCleanFilesModal
    \/ OrphanScanDone

SpecPlugin == InitModal /\ [][NextPlugin]_vars

----------------------------------------------------------------------------
(* A scan during which another program removes a file.  The file is in the *)
(* listing of its directory and vanishes either before the fs.stat of      *)
(* isUnlinkedFile or after it; the directories pass has ended by then.     *)

Moments == {"beforeStat", "afterStat"}

\* what a stretch of the files pass produces: items pushed, warnings logged
Produced(items, log) == [items |-> items, log |-> log]

Then(first, second) ==
    Produced(first.items \o second.items, first.log \o second.log)

RECURSIVE RacingWalk(_, _, _, _, _)
RECURSIVE RacingLoop(_, _, _, _, _, _)

\* the for loop of scanUnlinkedFiles from the k-th entry on, when victim
\* vanishes at moment
RacingLoop(entries, k, config, depth, victim, moment) ==
    IF k > Len(entries) THEN Produced(<<>>, <<>>)
    ELSE LET entry == entries[k]
             fullPath == FullPath(entry)
             rest == RacingLoop(entries, k + 1, config, depth, victim, moment)
         IN IF entry.type = "directory"
            THEN Then(RacingWalk(fullPath, config, depth + 1, victim, moment),
                      rest)
            ELSE IF entry = victim /\ moment = "beforeStat"
            \* fs.stat throws inside isUnlinkedFile, which returns false
            THEN rest
            ELSE IF entry = victim /\ IsUnlinkedFile(fullPath, entry.name, config)
            \* the fs.stat after isUnlinkedFile throws: the catch around
            \* the loop ends the listing of this directory
            THEN Produced(<<>>, ClassifyWarnings(fullPath, entry.name, config))
            ELSE Then(Produced(IF IsUnlinkedFile(fullPath, entry.name, config)
                               THEN <<ScanItem(entry)>> ELSE <<>>,
                               ClassifyWarnings(fullPath, entry.name, config)),
                      rest)

\* FileScanner.scanUnlinkedFiles when victim vanishes at moment
RacingWalk(dirPath, config, depth, victim, moment) ==
    IF FilesPassStops(depth, config) THEN Produced(<<>>, <<>>)
    ELSE IF ReadDirFails(dirPath) THEN Produced(<<>>, <<>>)
    ELSE RacingLoop(FilesPassEntries(dirPath, config), 1, config, depth,
                    victim, moment)

\* the report of a scanFiles call during which victim vanishes at moment
RacingReport(config, victim, moment) ==
    LET emptyDirectories == ScanEmptyDirectories(VaultPath, config, 0)
        unlinkedFiles ==
            RacingWalk(VaultPath, config, 0, victim, moment).items
    IN [emptyDirectories |-> emptyDirectories,
        unlinkedFiles |-> unlinkedFiles,
        totalCount |-> TotalCount(emptyDirectories, unlinkedFiles),
        totalSize |-> TotalSize(emptyDirectories, unlinkedFiles)]

\* FileScanner.scanFiles(arg) while another program removes victim
ScanFilesRacing(arg, victim, moment) ==
    /\ scans < MaxScans
    /\ victim \in fs
    /\ victim.type = "file"
    /\ fs' = fs \ {victim}
    /\ scanConfig' = Some(EffectiveConfig(arg))
    /\ scanResult' = Some(RacingReport(EffectiveConfig(arg), victim, moment))
    /\ scans' = scans + 1
    /\ warnings' = RacingWalk(VaultPath, EffectiveConfig(arg), 0,
                              victim, moment).log
    /\ raced' = Some(victim)
    /\ UNCHANGED <<unlistable, app, setup, suspended, deletion, view>>

\* vaults with two files in the root and up to two in a
RaceTrees ==
    { {FileNote, FileRoot} \cup extra :
        extra \in SUBSET {DirA, FileShallow, DirB, DirE, FileKeep} } \cap Trees

InitRace ==
    /\ fs \in RaceTrees
    /\ unlistable = {}
    /\ app = NoLinks
    /\ \E protected \in {PatternNone, PatternMd}, hidden \in BOOLEAN :
          settings = Settings(PatternAll, protected, MaxScanDepthSetting,
                              hidden, 0)
    /\ Fresh

NextRace ==
    \/ ScanFiles(None)
    \/ \E victim \in UniverseSet, moment \in Moments :
          ScanFilesRacing(None, victim, moment)

SpecRace == InitRace /\ [][NextRace]_vars

----------------------------------------------------------------------------
(* The plugin's settings and the settings tab.  The scanner is built with  *)
(* the plugin's settings object, so a field stored in that object is seen  *)
(* by the scanner at once; resetSettings puts a new object in the plugin,  *)
(* which reaches the scanner only through updateSettings.                  *)

\* DEFAULT_SETTINGS: the extension lists are kept apart from the model's
\* settings record, and without migration a copy of it has neither pattern
DEFAULT_SETTINGS == Settings(PatternNone, PatternNone, 10, TRUE, 0)

\* the cleanableExtensions and protectedExtensions of DEFAULT_SETTINGS
DEFAULT_EXTENSIONS ==
    Legacy(Some(<<PatternAll>>),
           Some(<< <<".", "m", "d">>, <<".", "c", "a", "n", "v", "a", "s">>,
                   <<".", "b", "a", "s", "e">> >>))

\* this.plugin.settings[field] = value; await this.plugin.saveSettings():
\* when saveData resolves, saved, updateSettings hands the plugin's object
\* to the scanner, when it rejects saveSettings ends there
StoreField(field, value, saved) ==
    /\ edits < MaxEdits
    /\ edits' = edits + 1
    /\ pluginSettings' = [pluginSettings EXCEPT ![field] = value]
    /\ settings' = IF aliased \/ saved THEN pluginSettings' ELSE settings
    /\ aliased' = (aliased \/ saved)
    /\ UNCHANGED <<fs, unlistable, app, legacy, scanning, deletion,
                   isScanning, orphans, dialog, notice>>

\* the slider of maxScanDepth
SetMaxScanDepth(value, saved) ==
    StoreField("maxScanDepth", value, saved) /\ UNCHANGED form

\* the toggle of excludeHidden
SetExcludeHidden(value, saved) ==
    StoreField("excludeHidden", value, saved) /\ UNCHANGED form

\* the text field of minFileSize
SetMinFileSize(value, saved) ==
    StoreField("minFileSize", value, saved) /\ UNCHANGED form

\* the input element of a pattern field when validateAndSave reads it
PatternInput(settingKey, text) ==
    Some([settingKey |-> settingKey, text |-> text, event |-> edits + 1])

\* settings.pattern_invalid
PatternInvalidText == <<"pattern_invalid">>

\* a form that stores what the input holds without compiling it
ValidateAndSaveUnchecked(settingKey, text, saved) ==
    /\ StoreField(settingKey, Trim(text), saved)
    /\ patternInput' = PatternInput(settingKey, text)
    /\ status' = IF saved THEN <<>> ELSE PatternInvalidText

\* validateAndSave of a pattern field whose input holds text (after the
\* debounced input event, on blur, on the click of an example): a throw of
\* new RegExp or of saveSettings ends in the catch block
ValidateAndSave(settingKey, text, saved) ==
    LET pattern == Trim(text) IN
    IF RegExpValid(pattern)
    THEN /\ StoreField(settingKey, pattern, saved)
         /\ patternInput' = PatternInput(settingKey, text)
         /\ status' = IF saved THEN <<>> ELSE PatternInvalidText
    ELSE /\ edits < MaxEdits
         /\ edits' = edits + 1
         /\ patternInput' = PatternInput(settingKey, text)
         /\ status' = PatternInvalidText
         /\ UNCHANGED <<world, scanning, deletion,
                        isScanning, orphans, dialog, notice>>

\* the initial validateAndSave of a pattern field that display() builds:
\* the input holds the stored pattern
DisplayPatternField(settingKey, saved) ==
    ValidateAndSave(settingKey, pluginSettings[settingKey], saved)

\* the reset button: CleanFilesPlugin.resetSettings and, when its save
\* resolved, display(), whose pattern fields validate the patterns of the
\* new object, the protected one last
ResetSettings(saved) ==
    /\ edits < MaxEdits
    /\ edits' = edits + 1
    /\ pluginSettings' = DEFAULT_SETTINGS
    /\ legacy' = DEFAULT_EXTENSIONS
    /\ settings' = IF saved THEN pluginSettings' ELSE settings
    /\ aliased' = saved
    /\ IF saved
       THEN /\ patternInput' = PatternInput("protectedPattern",
                                            DEFAULT_SETTINGS.protectedPattern)
            /\ status' \in {<<>>, PatternInvalidText}
       ELSE UNCHANGED form
    /\ UNCHANGED <<fs, unlistable, app, scanning, deletion,
                   isScanning, orphans, dialog, notice>>

\* the settings that createPatternSetting builds a field for
PatternKeys == {"cleanablePattern", "protectedPattern"}

\* what the user types into the pattern fields or picks from the examples
CleanableInputs == {PatternAll, PatternTmp, PatternInvalid, <<" ", ".", "*">>}
ProtectedInputs == {PatternNone, PatternMd, PatternInvalid}

SettingsTab ==
    \E saved \in BOOLEAN :
        \/ \E value \in {1, MaxScanDepthSetting} : SetMaxScanDepth(value, saved)
        \/ \E value \in BOOLEAN : SetExcludeHidden(value, saved)
        \/ \E value \in {0, 2} : SetMinFileSize(value, saved)
        \/ \E text \in CleanableInputs :
              ValidateAndSave("cleanablePattern", text, saved)
        \/ \E text \in ProtectedInputs :
              ValidateAndSave("protectedPattern", text, saved)
        \/ \E settingKey \in PatternKeys : DisplayPatternField(settingKey, saved)
        \/ ResetSettings(saved)

RECURSIVE VisitedWalk(_, _, _)
RECURSIVE VisitedLoop(_, _, _, _)

\* the files the for loop of scanUnlinkedFiles hands to isUnlinkedFile,
\* from the k-th entry on
VisitedLoop(entries, k, config, depth) ==
    IF k > Len(entries) THEN <<>>
    ELSE LET entry == entries[k] IN
         (IF entry.type = "directory"
          THEN VisitedWalk(FullPath(entry), config, depth + 1)
          ELSE <<entry>>)
         \o VisitedLoop(entries, k + 1, config, depth)

\* the files one scanUnlinkedFiles call hands to isUnlinkedFile, in order
VisitedWalk(dirPath, config, depth) ==
    IF FilesPassStops(depth, config) THEN <<>>
    ELSE IF ReadDirFails(dirPath) THEN <<>>
    ELSE VisitedLoop(FilesPassEntries(dirPath, config), 1, config, depth)

\* what the files pass produces for the files from the k-th to the last-th
\* under the settings the scanner holds now
RECURSIVE ClassifyFiles(_, _, _, _)
ClassifyFiles(files, k, last, config) ==
    IF k > last THEN Produced(<<>>, <<>>)
    ELSE LET entry == files[k]
             fullPath == FullPath(entry)
         IN Then(Produced(IF IsUnlinkedFile(fullPath, entry.name, config)
                          THEN <<ScanItem(entry)>> ELSE <<>>,
                          ClassifyWarnings(fullPath, entry.name, config)),
                 ClassifyFiles(files, k + 1, last, config))

\* FileScanner.scanFiles(arg) up to the fs.stat of isUnlinkedFile for the
\* cut-th file of its files pass, where the call waits for the disk
ScanSuspend(arg, cut) ==
    /\ scans < MaxScans
    /\ ~IsSome(suspended)
    /\ LET config == EffectiveConfig(arg)
           files == VisitedWalk(VaultPath, config, 0)
           done == ClassifyFiles(files, 1, cut - 1, config)
       IN /\ cut \in 1..Len(files)
          /\ suspended' =
                Some([config |-> config,
                      emptyDirectories
                         |-> ScanEmptyDirectories(VaultPath, config, 0),
                      files |-> files,
                      cut |-> cut,
                      items |-> done.items,
                      log |-> done.log,
                      started |-> settings])
    /\ UNCHANGED <<world, scanResult, scanConfig, scans, warnings, raced,
                   deletion, view>>

\* the rest of that scanFiles call: the remaining files are classified
\* with the patterns that this.settings holds when the call goes on
ScanResume ==
    /\ IsSome(suspended)
    /\ LET call == suspended[1]
           rest == ClassifyFiles(call.files, call.cut, Len(call.files),
                                 call.config)
           unlinkedFiles == call.items \o rest.items
       IN /\ scanResult' =
                Some([emptyDirectories |-> call.emptyDirectories,
                      unlinkedFiles |-> unlinkedFiles,
                      totalCount |-> TotalCount(call.emptyDirectories,
                                                unlinkedFiles),
                      totalSize |-> TotalSize(call.emptyDirectories,
                                              unlinkedFiles)])
          /\ scanConfig' = Some(call.config)
          /\ warnings' = call.log \o rest.log
    /\ scans' = scans + 1
    /\ raced' = None
    /\ suspended' = None
    /\ UNCHANGED <<world, deletion, view>>

\* a vault with files in the root, in a and in the hidden directory .g
SettingsTree ==
    {DirA, FileShallow, DirB, DirE, DirGit, FileJunk, FileNote, FileRoot}

InitSettings ==
    /\ fs = SettingsTree
    /\ unlistable = {}
    /\ app = NoLinks
    /\ settings = Settings(PatternTmp, PatternMd, MaxScanDepthSetting, FALSE, 0)
    /\ Fresh

NextSettings ==
    \/ SettingsTab
    \/ ~IsSome(suspended) /\ ScanFiles(None)
    \/ \E cut \in 1..Len(Universe) : ScanSuspend(None, cut)
    \/ ScanResume

SpecSettings == InitSettings /\ [][NextSettings]_vars

----------------------------------------------------------------------------
(* Vocabulary of the deletion properties: a step of deleteItems, the items *)
(* it was given, and what its result says.                                 *)

DeleteStep == deletes' # deletes

ItemPath(item) == Join(VaultPath, item.path)

\* the path spliced into an entry of errors
NamedPath(text) == SubSeq(text, 3, Len(text) - 5)

OnDisk(disk, item) == EntriesAt(disk, ItemPath(item)) # {}

----------------------------------------------------------------------------
(* C11: deleteItems returns success = true iff errors is empty, and errors *)
(* holds exactly one entry for each selected item whose removal failed     *)
(* (the item was not taken off the disk by the call), in processing order, *)
(* each naming that item's path; a removed item is not in errors.          *)

ErrorsMatchFailures ==
    [][DeleteStep =>
        LET result == deleteResult'[1]
            failed == SelectSeq(SelectedItems(deleteArg'),
                                LAMBDA item : ~(OnDisk(fs, item)
                                                /\ ~OnDisk(fs', item)))
        IN /\ result.success <=> (result.errors = <<>>)
           /\ Len(result.errors) = Len(failed)
           /\ \A i \in 1..Len(failed) :
                 NamedPath(result.errors[i]) = failed[i].path
      ]_vars

\* a call in which two removals failed and one succeeded
TwoFailuresOneRemoval ==
    /\ IsSome(deleteResult)
    /\ Len(deleteResult[1].errors) >= 2
    /\ \E i \in 1..Len(attempts) : ~IsSome(attempts[i].error)

----------------------------------------------------------------------------
(* C12: every selected item is attempted exactly once, one after the other *)
(* in list order, however many earlier items failed, and what was removed  *)
(* stays removed: nothing is put back.                                     *)

EverySelectedItemAttemptedInOrder ==
    [][DeleteStep =>
        LET selected == SelectedItems(deleteArg') IN
           /\ Len(attempts') = Len(selected)
           /\ \A i \in 1..Len(selected) :
                 /\ attempts'[i].fullPath = ItemPath(selected[i])
                 /\ attempts'[i].op = IF selected[i].type = "directory"
                                      THEN "rmdir" ELSE "unlink"
                 /\ ~IsSome(attempts'[i].error)
                       => ~OnDisk(fs', selected[i])
           /\ fs' \subseteq fs
      ]_vars

\* a call in which a removal failed and a later one succeeded
RemovalAfterFailure ==
    /\ IsSome(deleteResult)
    /\ \E i, j \in 1..Len(attempts) :
          /\ i < j
          /\ IsSome(attempts[i].error)
          /\ ~IsSome(attempts[j].error)
          /\ EntriesAt(fs, attempts[j].fullPath) = {}

----------------------------------------------------------------------------
(* C13: deleteItems touches only selected items: for an item whose         *)
(* selected flag is false no removal is attempted, what is on disk at its  *)
(* path is unchanged, and no entry of errors names it.                     *)

UnselectedItemsUntouched ==
    [][DeleteStep =>
        \A k \in 1..Len(deleteArg') :
            LET item == deleteArg'[k] IN
            ~item.selected =>
               /\ \A i \in 1..Len(attempts') :
                     attempts'[i].fullPath # ItemPath(item)
               /\ EntriesAt(fs', ItemPath(item)) = EntriesAt(fs, ItemPath(item))
               /\ \A i \in 1..Len(deleteResult'[1].errors) :
                     NamedPath(deleteResult'[1].errors[i]) # item.path
      ]_vars

\* a call that removed a selected item and was also given an unselected
\* item that is on disk
UnselectedItemKept ==
    /\ IsSome(deleteResult)
    /\ \E i \in 1..Len(attempts) : ~IsSome(attempts[i].error)
    /\ \E k \in 1..Len(deleteArg) :
          ~deleteArg[k].selected /\ OnDisk(fs, deleteArg[k])

----------------------------------------------------------------------------
(* C14: a selected directory item that holds an entry when deleteItems     *)
(* runs is an error, never a recursive delete: the directory and what is   *)
(* in it remain, errors has one entry for its path, success is false, and  *)
(* the other selected items are still attempted.                           *)

NonEmptyDirectoryIsAnError ==
    [][DeleteStep =>
        \A k \in 1..Len(deleteArg') :
            LET item == deleteArg'[k]
                result == deleteResult'[1]
            IN (/\ item.selected
                /\ item.type = "directory"
                /\ OnDisk(fs, item)
                /\ ChildrenAt(fs, ItemPath(item)) # {})
               => /\ Subtree(fs', ItemPath(item)) = Subtree(fs, ItemPath(item))
                  /\ Cardinality({ i \in 1..Len(result.errors) :
                        NamedPath(result.errors[i]) = item.path }) = 1
                  /\ ~result.success
                  /\ \A j \in 1..Len(deleteArg') :
                        deleteArg'[j].selected =>
                           \E i \in 1..Len(attempts') :
                              attempts'[i].fullPath = ItemPath(deleteArg'[j])
      ]_vars

\* the directory e was reported empty, a file was created in it before the
\* call, its removal failed and a later selected item was removed
FilledDirectoryRefused ==
    /\ IsSome(deleteResult)
    /\ scans = 1
    /\ ~Config.excludeHidden
    /\ \E i, j \in 1..Len(attempts) :
          /\ i < j
          /\ attempts[i] = Attempt("rmdir", FullPath(DirE), Some("ENOTEMPTY"))
          /\ ~IsSome(attempts[j].error)
    /\ FileKeep \in fs

----------------------------------------------------------------------------
(* C15: in the cleanup view nothing is removed unless the user ticked at   *)
(* least one item and then confirmed the dialog: deleteItems runs only in  *)
(* the step that answers an open dialog, on the ticked items the dialog    *)
(* was opened with; the dialog opens only on a non-empty selection; a      *)
(* delete click with nothing ticked only shows select_items_first; and a   *)
(* dialog closed without deleteItems leaves disk and report as they were.  *)

DeletionOnlyAfterConfirmedSelection ==
    [][/\ (fs' # fs \/ attempts' # attempts \/ DeleteStep) =>
             /\ IsSome(dialog) /\ ~IsSome(dialog')
             /\ Len(dialog[1]) > 0
             /\ \A i \in 1..Len(dialog[1]) :
                   dialog[1][i].selected /\ dialog[1][i] \in Items(ReportItems)
             /\ deleteArg' = dialog[1]
       /\ (IsSome(dialog') /\ dialog' # dialog) =>
             /\ ~IsSome(dialog)
             /\ Len(dialog'[1]) > 0
             /\ dialog'[1] = SelectedItems(ReportItems)
       /\ (HandleDelete /\ IsSome(scanResult)
              /\ SelectedItems(ReportItems) = <<>>) =>
             /\ notice' = <<"select_items_first">>
             /\ ~IsSome(dialog')
             /\ UNCHANGED <<fs, scanResult, deletion>>
       /\ (IsSome(dialog) /\ ~IsSome(dialog') /\ ~DeleteStep) =>
             UNCHANGED <<fs, scanResult>>
      ]_vars

\* the user ticked items and confirmed; one of them was removed, another
\* (a directory that only looked empty) was not
ConfirmedSelectionRemoved ==
    /\ deletes = 1
    /\ ~IsSome(dialog)
    /\ notice = <<"deleting", "delete_partial">>
    /\ Len(deleteArg) >= 2
    /\ \E i \in 1..Len(attempts) :
          ~IsSome(attempts[i].error) /\ EntriesAt(fs, attempts[i].fullPath) = {}

----------------------------------------------------------------------------
(* C16: a cleanablePattern or protectedPattern that does not compile never *)
(* aborts a scan, and behaves as matching nothing: scanFiles returns a     *)
(* report; with an invalid cleanablePattern no file is reported; with an   *)
(* invalid protectedPattern no file is protected, so every file that the   *)
(* walk arrives at, that is large enough and unreferenced and whose name   *)
(* matches a non-blank cleanablePattern is reported.                       *)

Invalid(pattern) == Len(Trim(pattern)) > 0 /\ ~RegExpValid(pattern)

InvalidPatternMatchesNothing ==
    /\ scans > 0 => IsSome(scanResult)
    /\ IsSome(scanResult) =>
          /\ Invalid(settings.cleanablePattern) => Report.unlinkedFiles = <<>>
          /\ Invalid(settings.protectedPattern) =>
                \A e \in fs :
                    (/\ e.type = "file"
                     /\ Walkable(e, Config)
                     /\ Depth(Rel(e)) < Config.maxDepth
                     /\ e.size >= Config.minFileSize
                     /\ ~IsReferencedByObsidian(FullPath(e))
                     /\ Len(Trim(settings.cleanablePattern)) > 0
                     /\ RegExpValid(settings.cleanablePattern)
                     /\ RegExpTest(settings.cleanablePattern, e.name))
                    => Rel(e) \in Paths(Report.unlinkedFiles)

\* a scan under the protectedPattern "(" has returned a report with n.md
InvalidProtectedFileReported ==
    /\ IsSome(scanResult)
    /\ settings.protectedPattern = PatternInvalid
    /\ Rel(FileNote) \in Paths(Report.unlinkedFiles)
    /\ Rel(FileDeep) \in Paths(Report.unlinkedFiles)

----------------------------------------------------------------------------
(* C17: an invalid pattern is logged once: during one scan the warning for *)
(* a given invalid pattern is emitted at most once, however many files are *)
(* classified.                                                             *)

WarnedAtMostOncePerPattern ==
    \A i, j \in 1..Len(warnings) :
        (/\ warnings[i].which = warnings[j].which
         /\ warnings[i].pattern = warnings[j].pattern)
        => i = j

----------------------------------------------------------------------------
(* C18: if the vault root itself cannot be listed, scanFiles fails with a  *)
(* scan-level error and returns no report, not an empty or partial one.    *)

RootUnlistableScanFails ==
    (VaultPath \in unlistable /\ scans > 0) => ~IsSome(scanResult)

----------------------------------------------------------------------------
(* C19: a directory other than the root that cannot be listed is skipped:  *)
(* neither it nor anything below it is in emptyDirectories or              *)
(* unlinkedFiles, and every entry outside its subtree is reported exactly  *)
(* when it would be reported if no listing failed: a file when the hidden  *)
(* filter and the depth limit let the walk arrive at it and the classifier *)
(* accepts it, a directory when the walk arrives at it and it looks empty. *)

\* the unlistable directories and everything below them
Blocked ==
    { e \in fs : \/ FullPath(e) \in unlistable
                 \/ \E d \in Ancestors(e) : FullPath(d) \in unlistable }

\* the hidden filter and the depth limit let a walk arrive at the entry
ArrivedAt(e, config) ==
    /\ Shown(e, config)
    /\ \A d \in Ancestors(e) : Shown(d, config)
    /\ Depth(Rel(e)) < config.maxDepth

LooksEmpty(d, config) ==
    IF config.excludeHidden
    THEN \A c \in Children(d) : StartsWith(c.name, ".")
    ELSE Children(d) = {}

UnlistableDirectorySkipped ==
    (IsSome(scanResult) /\ VaultPath \notin unlistable) =>
        /\ \A e \in Blocked :
              Rel(e) \notin Paths(Report.emptyDirectories)
                               \cup Paths(Report.unlinkedFiles)
        /\ \A e \in fs \ Blocked :
              /\ e.type = "file" =>
                    (Rel(e) \in Paths(Report.unlinkedFiles)
                       <=> /\ ArrivedAt(e, Config)
                           /\ e.size >= Config.minFileSize
                           /\ Acceptable(e))
              /\ e.type = "directory" =>
                    (Rel(e) \in Paths(Report.emptyDirectories)
                       <=> ArrivedAt(e, Config) /\ LooksEmpty(e, Config))

\* a could not be listed: a/s.t and the empty a/b are not reported, while
\* the empty directory e and the root file enumerated after a are
UnlistableSubtreeLeftOut ==
    /\ IsSome(scanResult)
    /\ unlistable = {FullPath(DirA)}
    /\ {FileShallow, DirB} \subseteq fs
    /\ Children(DirB) = {}
    /\ Paths(Report.emptyDirectories) = {Rel(DirE)}
    /\ Rel(FileRoot) \in Paths(Report.unlinkedFiles)
    /\ Rel(FileShallow) \notin Paths(Report.unlinkedFiles)

----------------------------------------------------------------------------
(* C20: if a file vanishes at any point between the listing of its         *)
(* directory and the end of its classification in the files pass, only     *)
(* that file is omitted: every other file that the walk arrives at and the *)
(* classifier accepts is still reported.                                   *)

OnlyVanishedFileOmitted ==
    (IsSome(scanResult) /\ IsSome(raced)) =>
        \A e \in fs :
            (/\ e.type = "file"
             /\ Walkable(e, Config)
             /\ Depth(Rel(e)) < Config.maxDepth
             /\ e.size >= Config.minFileSize
             /\ Acceptable(e))
            => Rel(e) \in Paths(Report.unlinkedFiles)

----------------------------------------------------------------------------
(* C21: after a deletion batch has finished, fully or partially            *)
(* successful, the report the cleanup view displays lists nothing that was *)
(* removed: every listed item is still on disk.                            *)

DisplayedReportHoldsNoRemovedItem ==
    (deletes > 0 /\ ~isScanning /\ IsSome(scanResult)) =>
        \A item \in Items(ReportItems) : OnDisk(fs, item)

----------------------------------------------------------------------------
(* C22: at most one scan is in flight at a time from the UI: a scan        *)
(* request issued while a scan is running starts no second walk.           *)

AtMostOneScanInFlight == InFlight <= 1

----------------------------------------------------------------------------
(* C23: the scanner never classifies with a stale configuration: after any *)
(* sequence of settings edits, resets and saves, the save whose            *)
(* persistence step fails included, a scan uses the plugin's current       *)
(* settings for maxDepth, excludeHidden, minFileSize and both patterns.    *)
(* Stated for the scanFiles calls that start and end in one step.          *)

ScanUsesCurrentSettings ==
    [][(scans' # scans /\ ~IsSome(suspended)) =>
          /\ scanConfig'[1].maxDepth = pluginSettings.maxScanDepth
          /\ scanConfig'[1].excludeHidden = pluginSettings.excludeHidden
          /\ scanConfig'[1].minFileSize = pluginSettings.minFileSize
          /\ settings.cleanablePattern = pluginSettings.cleanablePattern
          /\ settings.protectedPattern = pluginSettings.protectedPattern
      ]_vars

----------------------------------------------------------------------------
(* C24: the configuration of a scan is immutable for the duration of that  *)
(* scan: every file visited by one scanFiles call is classified against    *)
(* the cleanablePattern and protectedPattern in effect when the scan       *)
(* started, even if the settings are edited or swapped while the scan      *)
(* waits on a filesystem operation.                                        *)

\* the two pattern steps of the classifier, on explicit patterns
AcceptedUnder(cleanable, protected, fileName) ==
    /\ ~(/\ Len(Trim(protected)) > 0
         /\ RegExpValid(protected)
         /\ RegExpTest(protected, fileName))
    /\ Len(Trim(cleanable)) > 0
    /\ RegExpValid(cleanable)
    /\ RegExpTest(cleanable, fileName)

OnePatternPairPerScan ==
    [][(IsSome(suspended) /\ ~IsSome(suspended')) =>
          LET call == suspended[1] IN
          \A i \in 1..Len(call.files) :
              LET e == call.files[i] IN
              Rel(e) \in Paths(scanResult'[1].unlinkedFiles)
                 <=> /\ e.size >= call.config.minFileSize
                     /\ ~IsReferencedByObsidian(FullPath(e))
                     /\ AcceptedUnder(call.started.cleanablePattern,
                                      call.started.protectedPattern, e.name)
      ]_vars

----------------------------------------------------------------------------
(* Vocabulary of the reference properties: the link graph as the claims    *)
(* speak of it.                                                            *)

\* the document's own cache has a non-empty links or embeds list
HasOwnLinks(rel) ==
    /\ app.cache[rel] # None
    /\ \/ app.cache[rel][1].links # None /\ app.cache[rel][1].links[1] # <<>>
       \/ app.cache[rel][1].embeds # None /\ app.cache[rel][1].embeds[1] # <<>>

EndsInMd(rel) ==
    Len(rel) > 3 /\ SubSeq(rel, Len(rel) - 2, Len(rel)) = <<".", "m", "d">>

\* the targets of the links and embeds of an indexed document
Targets(src) ==
    IF app.cache[src] = None THEN {}
    ELSE LET c == app.cache[src][1] IN
         (IF c.links = None THEN {} ELSE Items(c.links[1]))
         \cup (IF c.embeds = None THEN {} ELSE Items(c.embeds[1]))

\* some indexed markdown document links to or embeds the path or the
\* document's extension-less base name
MentionedByDocument(rel) ==
    \E src \in app.files :
        EndsInMd(src) /\ Targets(src) \cap {rel, Basename(rel)} # {}

\* some source of the link map maps to the path (with a count that is not 0)
MapsTo(linkMap, rel) == \E l \in linkMap : l.target = rel /\ l.count > 0

\* the last scan visited the file and only references keep a file out of
\* its report
OnlyReferencesDecide(e) ==
    /\ IsSome(scanResult)
    /\ Walkable(e, Config) /\ Depth(Rel(e)) < Config.maxDepth
    /\ settings.cleanablePattern = PatternAll
    /\ ~HasPattern(settings.protectedPattern)
    /\ Config.minFileSize = 0

----------------------------------------------------------------------------
(* C25: for a path that is a tracked document, isReferencedByObsidian is   *)
(* true iff (1) the document's own cache has a non-empty links or embeds   *)
(* list, or (2) some indexed markdown document has a link or embed whose   *)
(* target is the path or the document's base name, or (3) some source in   *)
(* the resolved-link map maps to the path; a scan under which only         *)
(* references decide leaves out exactly those tracked files.               *)

TrackedDocumentReferencedIff ==
    \A e \in fs :
        (e.type = "file" /\ Rel(e) \in app.files) =>
            LET referenced ==
                    \/ HasOwnLinks(Rel(e))
                    \/ MentionedByDocument(Rel(e))
                    \/ MapsTo(app.resolvedLinks, Rel(e))
            IN /\ IsReferencedByObsidian(FullPath(e)) <=> referenced
               /\ OnlyReferencesDecide(e) =>
                     (Rel(e) \notin Paths(Report.unlinkedFiles) <=> referenced)

\* n.md is kept out only by its own links, a/s.t only by the embed of its
\* base name in n.md, while the tracked u .t is reported
TrackedDocumentsKeptByLinks ==
    /\ \A e \in {FileNote, FileRoot, FileShallow} : OnlyReferencesDecide(e)
    /\ {RelNote, RelRoot, RelShallow} \subseteq app.files
    /\ app.resolvedLinks = {}
    /\ app.cache[RelNote] = Cache(None, Some(<<Basename(RelShallow)>>))
    /\ Paths(Report.unlinkedFiles) \cap {RelNote, RelRoot, RelShallow}
          = {RelRoot}

----------------------------------------------------------------------------
(* C26: for a path that is not a tracked document, isReferencedByObsidian  *)
(* is true iff some source in the resolved-link map or in the unresolved-  *)
(* link map maps to the path; such a file that is a target in the          *)
(* resolved-link map is not in unlinkedFiles.                              *)

UntrackedFileReferencedIff ==
    \A e \in fs :
        (e.type = "file" /\ Rel(e) \notin app.files) =>
            LET referenced ==
                    \/ MapsTo(app.resolvedLinks, Rel(e))
                    \/ MapsTo(app.unresolvedLinks, Rel(e))
            IN /\ IsReferencedByObsidian(FullPath(e)) <=> referenced
               /\ OnlyReferencesDecide(e) =>
                     (Rel(e) \notin Paths(Report.unlinkedFiles) <=> referenced)
               /\ (IsSome(scanResult) /\ MapsTo(app.resolvedLinks, Rel(e)))
                     => Rel(e) \notin Paths(Report.unlinkedFiles)

\* e/.k, outside the index, is a resolved target of n.md and is left out of
\* a report that holds the other untracked files
UntrackedResolvedTargetLeftOut ==
    /\ OnlyReferencesDecide(FileKeep) /\ OnlyReferencesDecide(FileDeep)
    /\ RelKeep \notin app.files
    /\ app.resolvedLinks = {Link(RelNote, RelKeep, 1)}
    /\ app.unresolvedLinks = {}
    /\ RelKeep \notin Paths(Report.unlinkedFiles)
    /\ Rel(FileDeep) \in Paths(Report.unlinkedFiles)

----------------------------------------------------------------------------
(* Settings migration (CleanFilesPlugin.migrateOldSettings) and the check  *)
(* of the former format that it replaces (the extension lists of           *)
(* isUnlinkedFile).                                                        *)

\* the characters of /[.*+?^${}()|[\]\\]/
SpecialCharacters ==
    {".", "*", "+", "?", "^", "$", "{", "}", "(", ")", "|", "[", "]",
     Backslash}

\* ext.replace(/[.*+?^${}()|[\]\\]/g, '\\$&')
RECURSIVE EscapeRegExp(_)
EscapeRegExp(ext) ==
    IF Len(ext) = 0 THEN <<>>
    ELSE (IF ext[1] \in SpecialCharacters THEN <<Backslash, ext[1]>>
          ELSE <<ext[1]>>) \o EscapeRegExp(Tail(ext))

\* extensions.join('|')
RECURSIVE JoinBar(_)
JoinBar(extensions) ==
    IF Len(extensions) = 0 THEN <<>>
    ELSE IF Len(extensions) = 1 THEN extensions[1]
    ELSE extensions[1] \o <<"|">> \o JoinBar(Tail(extensions))

\* String.prototype.replace with a global expression for the text needle
RECURSIVE ReplaceAll(_, _, _)
ReplaceAll(s, needle, replacement) ==
    LET i == IndexOf(s, needle)
    IN IF i = 0 THEN s
       ELSE SubSeq(s, 1, i - 1) \o replacement
            \o ReplaceAll(SubSeq(s, i + Len(needle), Len(s)),
                          needle, replacement)

\* the pattern that migrateOldSettings stores for a list of extensions
MigratedPattern(list, whenEmpty) ==
    LET extensions == [i \in 1..Len(list) |-> EscapeRegExp(list[i])]
    IN IF Len(extensions) > 0
       THEN <<Backslash, ".", "(">>
            \o ReplaceAll(JoinBar(extensions),
                          <<Backslash, ".", Backslash, "*">>, <<".", "*">>)
            \o <<")", "$">>
       ELSE whenEmpty

\* CleanFilesPlugin.loadSettings at its call of migrateOldSettings: the lists
\* become patterns and are deleted from the object, which the scanner is
\* constructed with afterwards
MigrateOldSettings ==
    /\ pluginSettings' =
          [pluginSettings EXCEPT
             !.cleanablePattern =
                 IF IsSome(legacy.cleanableExtensions)
                 THEN MigratedPattern(legacy.cleanableExtensions[1], PatternAll)
                 ELSE @,
             !.protectedPattern =
                 IF IsSome(legacy.protectedExtensions)
                 THEN MigratedPattern(legacy.protectedExtensions[1], PatternNone)
                 ELSE @]
    /\ legacy' = NoLegacy
    /\ settings' = pluginSettings'
    /\ aliased' = TRUE
    /\ UNCHANGED <<fs, unlistable, app, scanning, deletion, view>>

\* String.prototype.toLowerCase over the capitals that the names here use
ToLowerCase(s) ==
    [i \in 1..Len(s) |->
        CASE s[i] = "M" -> "m" [] s[i] = "D" -> "d" [] s[i] = "N" -> "n"
          [] OTHER -> s[i]]

\* path.extname(fileName)
Extname(fileName) ==
    LET d == LastDot(fileName)
    IN IF d = 0 \/ d = 1 THEN <<>> ELSE SubSeq(fileName, d, Len(fileName))

\* this.settings.protectedExtensions.includes(ext)
ProtectedByExtension(list, fileName) ==
    \E i \in 1..Len(list) : list[i] = ToLowerCase(Extname(fileName))

\* this.settings.cleanableExtensions.includes(ext) ||
\* this.settings.cleanableExtensions.includes(fileName)
CleanableByExtension(list, fileName) ==
    \E i \in 1..Len(list) :
        list[i] = ToLowerCase(Extname(fileName)) \/ list[i] = fileName

\* the extension lists that a stored settings object may hold
CleanableLists ==
    {None, Some(<<>>), Some(<<PatternAll>>), Some(<< <<".", "t">> >>),
     Some(<< <<".", "t">>, <<".", "m", "d">> >>)}
ProtectedLists ==
    {None, Some(<<>>), Some(<< <<".", "m", "d">> >>),
     DEFAULT_EXTENSIONS.protectedExtensions}

\* a plugin in loadSettings, its settings object assembled from the
\* defaults and the stored data
InitMigrate ==
    /\ fs \in {UniverseSet, SettingsTree}
    /\ unlistable = {}
    /\ app = NoLinks
    /\ settings = Settings(PatternNone, PatternNone, MaxScanDepthSetting, FALSE, 0)
    /\ \E cleanable \in CleanableLists, protected \in ProtectedLists :
          legacy = Legacy(cleanable, protected)
    /\ Loaded

\* the plugin loads, and scans once it has loaded
NextMigrate ==
    \/ MigrateOldSettings
    \/ legacy = NoLegacy /\ ScanFiles(None)

SpecMigrate == InitMigrate /\ [][NextMigrate]_vars

\* the file names that the patterns and the lists are compared on
MigrationNames ==
    { e.name : e \in { f \in UniverseSet : f.type = "file" } }
    \cup { <<"x", ".", ".", "m", "d">>, <<"N", ".", "M", "D">>, <<"m", "d">> }

\* the scanner's use of a stored pattern on a name
PatternMatches(pattern, fileName) ==
    HasPattern(pattern) /\ TestPattern(pattern, fileName)

----------------------------------------------------------------------------
(* C27 as stated: the pattern that migration stores matches a file name    *)
(* exactly when the file's extension is in the list it was made from, for  *)
(* both lists; and once the lists are gone from the settings object a      *)
(* further migration changes nothing.                                      *)
MigrationKeepsExtensionLists ==
    [][ /\ \A name \in MigrationNames :
            /\ IsSome(legacy.protectedExtensions) =>
                  (PatternMatches(pluginSettings'.protectedPattern, name)
                     <=> ProtectedByExtension(legacy.protectedExtensions[1],
                                              name))
            /\ IsSome(legacy.cleanableExtensions) =>
                  (PatternMatches(pluginSettings'.cleanablePattern, name)
                     <=> CleanableByExtension(legacy.cleanableExtensions[1],
                                              name))
        /\ legacy = NoLegacy => UNCHANGED setup ]_vars

\* the second half alone: without lists, migration changes nothing
SecondMigrationChangesNothing ==
    [][ legacy = NoLegacy => UNCHANGED setup ]_vars

\* the protected list ['.md'] has become a pattern under which n.md, whose
\* extension is in the list, is reported
MigratedPatternMissesListedExtension ==
    /\ IsSome(scanResult)
    /\ settings.protectedPattern
          = MigratedPattern(<< <<".", "m", "d">> >>, PatternNone)
    /\ ProtectedByExtension(<< <<".", "m", "d">> >>, FileNote.name)
    /\ RelNote \in Paths(Report.unlinkedFiles)

----------------------------------------------------------------------------
(* C28 as stated: every directory reported in emptyDirectories can be      *)
(* removed: when the first deleteItems call after a scan runs on the       *)
(* filesystem that the scan saw, no removal of a selected reported         *)
(* directory fails, whatever excludeHidden is.                             *)
ReportedEmptyDirectoryRemovable ==
    [][(DeleteStep /\ deletes = 0 /\ IsSome(scanResult)) =>
        \A k \in 1..Len(deleteArg') :
            LET item == deleteArg'[k] IN
            (/\ item.selected
             /\ item.type = "directory"
             /\ item.path \in Paths(Report.emptyDirectories))
            => /\ ~OnDisk(fs', item)
               /\ \A i \in 1..Len(attempts') :
                     attempts'[i].fullPath = ItemPath(item)
                        => ~IsSome(attempts'[i].error)
      ]_vars

\* the same for scans that do not leave hidden entries out
ReportedEmptyDirectoryRemovableWhenNothingHidden ==
    [][(DeleteStep /\ deletes = 0 /\ IsSome(scanResult)
          /\ ~Config.excludeHidden) =>
        \A k \in 1..Len(deleteArg') :
            LET item == deleteArg'[k] IN
            (/\ item.selected
             /\ item.type = "directory"
             /\ item.path \in Paths(Report.emptyDirectories))
            => ~OnDisk(fs', item)
      ]_vars

\* e, which holds only the hidden .k, was reported as empty under
\* excludeHidden and its removal failed on the unchanged filesystem
HiddenOnlyDirectoryNotRemoved ==
    /\ IsSome(deleteResult)
    /\ deletes = 1
    /\ Config.excludeHidden
    /\ Rel(DirE) \in Paths(Report.emptyDirectories)
    /\ \E i \in 1..Len(attempts) :
          attempts[i] = Attempt("rmdir", FullPath(DirE), Some("ENOTEMPTY"))
    /\ {DirE, FileKeep} \subseteq fs

----------------------------------------------------------------------------
(* C29: the vault root is never reported as an empty directory, even when  *)
(* the vault has no (visible) entries; and no reported entry lies inside a *)
(* reported empty directory: no path of emptyDirectories or unlinkedFiles  *)
(* has a path of emptyDirectories as a proper ancestor.                    *)

\* the directory path is a proper ancestor of the path
ProperAncestor(directory, path) ==
    /\ Len(path) > Len(directory) + 1
    /\ SubSeq(path, 1, Len(directory) + 1) = directory \o <<Sep>>

\* nothing that a walk with this configuration lists in the root
NothingVisibleInRoot(config) ==
    \A e \in fs : e.dir = VaultPath => ~Shown(e, config)

RootAndContentsNeverReported ==
    IsSome(scanResult) =>
        /\ \A d \in Items(Report.emptyDirectories) :
              /\ Len(d.path) > 0
              /\ ItemPath(d) # VaultPath
              /\ d.path # <<".">>
        /\ NothingVisibleInRoot(Config) => Report.emptyDirectories = <<>>
        /\ \A d \in Items(Report.emptyDirectories) :
              \A item \in Items(Report.emptyDirectories)
                            \cup Items(Report.unlinkedFiles) :
                  ~ProperAncestor(d.path, item.path)

\* e is reported as empty while it holds the hidden .k, which no list
\* names, next to files that are reported
HiddenContentsOfReportedDirectoryLeftOut ==
    /\ IsSome(scanResult)
    /\ Config.excludeHidden
    /\ FileKeep \in fs
    /\ Rel(DirE) \in Paths(Report.emptyDirectories)
    /\ Report.unlinkedFiles # <<>>
    /\ Rel(FileKeep) \notin Paths(Report.unlinkedFiles)

\* a vault without visible entries has been scanned
VaultWithoutVisibleEntriesScanned ==
    /\ IsSome(scanResult)
    /\ fs # {}
    /\ NothingVisibleInRoot(Config)
    /\ Config.maxDepth > 0
    /\ VaultPath \notin unlistable
    /\ Report.totalCount = 0

----------------------------------------------------------------------------
(* The settings form alone, opened on stored patterns that compile or, as  *)
(* after an edit of the data file by hand, do not.                         *)

InitForm ==
    /\ fs = SettingsTree
    /\ unlistable = {}
    /\ app = NoLinks
    /\ \E cleanable \in {PatternAll, PatternInvalid},
          protected \in {PatternMd, PatternInvalid} :
          settings = Settings(cleanable, protected, MaxScanDepthSetting,
                              FALSE, 0)
    /\ Fresh

NextForm == SettingsTab

SpecForm == InitForm /\ [][NextForm]_vars

\* the event that brought the form into its state after the step was a
\* validateAndSave of an input that does not compile
InvalidInputHandled ==
    /\ edits' # edits
    /\ IsSome(patternInput')
    /\ patternInput'[1].event = edits'
    /\ ~RegExpValid(Trim(patternInput'[1].text))

----------------------------------------------------------------------------
(* C30 as stated: once the form has handled an event, the stored           *)
(* cleanablePattern and protectedPattern compile as regular expressions.   *)
StoredPatternsCompile ==
    edits > 0 =>
        \A settingKey \in PatternKeys : RegExpValid(pluginSettings[settingKey])

(* C30 as amended: the form never stores an invalid regular expression: a  *)
(* pattern that a step of the form changes is changed to a trimmed text    *)
(* that compiles, a stored pattern that compiles is followed by one that   *)
(* compiles, and an invalid input leaves the stored patterns and the       *)
(* scanner's settings unchanged (nothing is stored, nothing is saved) and  *)
(* shows the invalid status.                                               *)
FormNeverStoresInvalidPattern ==
    [][ /\ \A settingKey \in PatternKeys :
              /\ pluginSettings'[settingKey] # pluginSettings[settingKey]
                    => /\ RegExpValid(pluginSettings'[settingKey])
                       /\ Trim(pluginSettings'[settingKey])
                             = pluginSettings'[settingKey]
              /\ RegExpValid(pluginSettings[settingKey])
                    => RegExpValid(pluginSettings'[settingKey])
        /\ InvalidInputHandled
              => UNCHANGED setup /\ status' = PatternInvalidText
      ]_vars

\* the protected field was given "(" while a pattern that compiles was
\* stored: the status is the invalid one and the stored pattern is kept
InvalidInputRejected ==
    /\ IsSome(patternInput)
    /\ patternInput[1] = [settingKey |-> "protectedPattern",
                          text |-> PatternInvalid, event |-> edits]
    /\ status = PatternInvalidText
    /\ pluginSettings.protectedPattern = PatternMd
    /\ settings.protectedPattern = PatternMd

====
